---- MODULE Spec2Model ----
(***************************************************************************)
(* A model of FileManagerApp (src/File_Manager_Command_Line_Version.py):  *)
(* the Tk file manager's session state (current_path, clipboard, tree     *)
(* rows, editor windows) over a small POSIX filesystem, one action per    *)
(* event handler.  The os / shutil calls the handlers make are modelled   *)
(* by what CPython does on Linux.                                         *)
(***************************************************************************)
EXTENDS Integers, Sequences, FiniteSets, TLC

\* ------------------------------------------------------------------ bounds
\* Longest path (number of components below the root) the model holds.
MaxDepth == 2
\* Most entries (files and directories, the root not counted) the model holds.
MaxEntries == 3
\* Most editor windows open at once.
MaxEditors == 1
\* Most "Confirm Replace" answers one paste is supplied with.
MaxAsks == 1

\* ------------------------------------------------------------------- names
\* A name is a sequence of characters; a path is a sequence of names.
nD == <<"d">>
nF == <<"f">>
nFdot == <<"f", ".">>
nFmd == <<"f", ".", "m", "d">>
nDotF == <<".", "f">>
DotDot == <<".", ".">>
Root == << >>

\* What the user may type in the "New Folder" dialog ("" is Cancel / empty).
FolderInputs == {<< >>, nD}
\* What the user may type in the "New File" dialog.
FileInputs == {<< >>, nF, nDotF, nFdot, nFmd}
\* What the user may type in the "Rename" dialog.
RenameInputs == {<< >>, nFmd}
\* What the user may leave in an editor's text area.
Texts == {<< >>, <<"x">>}
\* What the user may type in the address bar: absolute paths, ".." allowed.
AddressInputs ==
    UNION {[1..n -> {nD, nFmd}] : n \in 0..MaxDepth} \cup {<<DotDot>>, <<nD, DotDot>>}

\* --------------------------------------------------------------- os.path
Parent(p) == IF p = Root THEN Root ELSE SubSeq(p, 1, Len(p) - 1)
Base(p) == IF p = Root THEN << >> ELSE p[Len(p)]
Join(p, n) == Append(p, n)
IsPrefix(p, q) == Len(p) <= Len(q) /\ SubSeq(q, 1, Len(p)) = p
Prefixes(p) == {SubSeq(p, 1, n) : n \in 0..Len(p)}

\* os.path.abspath of an absolute path: ".." is collapsed lexically.
RECURSIVE AbsPath(_)
AbsPath(p) ==
    IF p = Root THEN Root
    ELSE LET head == AbsPath(Parent(p))
         IN  IF Base(p) = DotDot THEN Parent(head) ELSE Append(head, Base(p))

\* os.path.splitext(name)[1]: the text from the last dot on, unless that dot
\* is one of the name's leading dots.
LastDot(name) ==
    LET dots == {i \in 1..Len(name) : name[i] = "."}
    IN  IF dots = {} THEN 0 ELSE CHOOSE i \in dots : \A j \in dots : j <= i
LeadingDots(name) ==
    LET n == Len(name)
        stops == {i \in 1..n : name[i] # "."}
    IN  IF stops = {} THEN n ELSE (CHOOSE i \in stops : \A j \in stops : i <= j) - 1
SplitExt(name) ==
    LET k == LastDot(name)
    IN  IF k > LeadingDots(name) THEN SubSeq(name, k, Len(name)) ELSE << >>

\* ------------------------------------------------------------- filesystem
\* A filesystem is a function from the paths that exist to their nodes.  A
\* node is a directory, a directory without any permission bit ("locked":
\* it can be neither listed nor entered) or a file with its text.
DirNode == <<"dir", << >> >>
LockedNode == <<"locked", << >> >>
FileNode(text) == <<"file", text>>

Has(f, p) == p \in DOMAIN f
Kind(f, p) == IF Has(f, p) THEN f[p][1] ELSE "none"
IsDir(f, p) == Kind(f, p) \in {"dir", "locked"}
IsFile(f, p) == Kind(f, p) = "file"
Children(f, p) == {q \in DOMAIN f : q # Root /\ Parent(q) = p}
Under(f, p) == {q \in DOMAIN f : IsPrefix(p, q)}
Without(f, gone) == [q \in (DOMAIN f) \ gone |-> f[q]]
With(f, p, node) == [q \in (DOMAIN f) \cup {p} |-> IF q = p THEN node ELSE f[q]]

\* The errno of walking to directory d before touching an entry in it.
DirErr(f, d) ==
    LET have == {a \in Prefixes(d) : Has(f, a)}
        a == CHOOSE x \in have : \A y \in have : Len(y) <= Len(x)
    IN  CASE Kind(f, a) = "file" -> "NotADirectoryError"
          [] Kind(f, a) = "locked" -> "PermissionError"
          [] a # d -> "FileNotFoundError"
          [] OTHER -> "ok"
\* The errno of a stat() of p.
StatErr(f, p) ==
    IF Has(f, p) THEN "ok"
    ELSE IF DirErr(f, Parent(p)) # "ok" THEN DirErr(f, Parent(p))
    ELSE "FileNotFoundError"

\* os.path.isdir of a path as typed (".." resolved by the kernel: every
\* directory walked through must exist and be searchable).
RECURSIVE Resolves(_, _)
Resolves(f, p) ==
    IF p = Root THEN TRUE
    ELSE /\ Resolves(f, Parent(p))
         /\ Kind(f, AbsPath(Parent(p))) = "dir"
         /\ (Base(p) = DotDot \/ Has(f, AbsPath(p)))
IsDirTyped(f, p) == Resolves(f, p) /\ IsDir(f, AbsPath(p))

Ok(f) == [fs |-> f, exc |-> "ok"]
Raise(f, e) == [fs |-> f, exc |-> e]

\* os.listdir(p)
ListDir(f, p) ==
    CASE StatErr(f, p) # "ok" -> [names |-> {}, exc |-> StatErr(f, p)]
      [] Kind(f, p) = "file" -> [names |-> {}, exc |-> "NotADirectoryError"]
      [] Kind(f, p) = "locked" -> [names |-> {}, exc |-> "PermissionError"]
      [] OTHER -> [names |-> {Base(q) : q \in Children(f, p)}, exc |-> "ok"]

\* os.mkdir(p)
MkDir(f, p) ==
    CASE DirErr(f, Parent(p)) # "ok" -> Raise(f, DirErr(f, Parent(p)))
      [] Has(f, p) -> Raise(f, "FileExistsError")
      [] OTHER -> Ok(With(f, p, DirNode))

\* open(p, 'a').close(): creates an empty file, leaves an existing one alone.
OpenAppend(f, p) ==
    CASE DirErr(f, Parent(p)) # "ok" -> Raise(f, DirErr(f, Parent(p)))
      [] IsDir(f, p) -> Raise(f, "IsADirectoryError")
      [] Has(f, p) -> Ok(f)
      [] OTHER -> Ok(With(f, p, FileNode(<< >>)))

\* open(p, 'w') ... write(text): creates or truncates, then writes.
OpenWrite(f, p, text) ==
    CASE DirErr(f, Parent(p)) # "ok" -> Raise(f, DirErr(f, Parent(p)))
      [] IsDir(f, p) -> Raise(f, "IsADirectoryError")
      [] OTHER -> Ok(With(f, p, FileNode(text)))

\* open(p, 'r') ... read()
OpenRead(f, p) ==
    CASE StatErr(f, p) # "ok" -> [text |-> << >>, exc |-> StatErr(f, p)]
      [] Kind(f, p) = "locked" -> [text |-> << >>, exc |-> "PermissionError"]
      [] Kind(f, p) = "dir" -> [text |-> << >>, exc |-> "IsADirectoryError"]
      [] OTHER -> [text |-> f[p][2], exc |-> "ok"]

\* os.remove(p) / os.unlink(p)
Remove(f, p) ==
    CASE StatErr(f, p) # "ok" -> Raise(f, StatErr(f, p))
      [] IsDir(f, p) -> Raise(f, "IsADirectoryError")
      [] OTHER -> Ok(Without(f, {p}))

\* shutil.rmtree(p): entries are removed in directory order, which the
\* platform does not fix, and the first failure is raised at once; so every
\* order is a possible outcome.
RECURSIVE RmTree(_, _), RmEntries(_, _)
RmTree(f, p) ==
    CASE StatErr(f, p) # "ok" -> {Raise(f, StatErr(f, p))}
      [] Kind(f, p) = "file" -> {Raise(f, "NotADirectoryError")}
      [] Kind(f, p) = "locked" -> {Raise(f, "PermissionError")}
      [] OTHER -> {IF o.exc = "ok" THEN Ok(Without(o.fs, {p})) ELSE o :
                      o \in RmEntries(f, p)}
RmEntries(f, p) ==
    IF Children(f, p) = {} THEN {Ok(f)}
    ELSE UNION {UNION {IF o.exc = "ok" THEN RmEntries(o.fs, p) ELSE {o} :
                          o \in IF IsDir(f, c) THEN RmTree(f, c) ELSE {Remove(f, c)}} :
                   c \in Children(f, p)}

\* shutil.copy2(src, dst): into dst when dst is a directory, else onto dst,
\* which it overwrites without asking.
Copy2(f, src, dst) ==
    LET to == IF IsDir(f, dst) THEN Join(dst, Base(src)) ELSE dst
        rd == OpenRead(f, src)
    IN  CASE Has(f, src) /\ src = to -> Raise(f, "SameFileError")
          [] rd.exc # "ok" -> Raise(f, rd.exc)
          [] OTHER -> OpenWrite(f, to, rd.text)

\* os.makedirs(dst): FileExistsError when dst exists; missing parents are made.
MakeDirs(f, dst) ==
    LET e == DirErr(f, Parent(dst))
    IN  CASE Has(f, dst) -> Raise(f, "FileExistsError")
          [] e \notin {"ok", "FileNotFoundError"} -> Raise(f, e)
          [] OTHER -> Ok([q \in (DOMAIN f) \cup Prefixes(dst) |->
                             IF Has(f, q) THEN f[q] ELSE DirNode])

\* shutil.copytree(src, dst): lists src, makes dst, copies every entry; the
\* entries' failures are collected and raised together as shutil.Error once
\* everything else has been copied.
RECURSIVE CopyTree(_, _, _), CopyEntries(_, _, _, _)
CopyTree(f, src, dst) ==
    LET ls == ListDir(f, src)
        made == MakeDirs(f, dst)
    IN  CASE ls.exc # "ok" -> Raise(f, ls.exc)
          [] made.exc # "ok" -> made
          [] OTHER -> CopyEntries(made.fs, src, dst, ls.names)
CopyEntries(f, src, dst, left) ==
    IF left = {} THEN Ok(f)
    ELSE LET n == CHOOSE x \in left : TRUE
             one == IF IsDir(f, Join(src, n))
                    THEN CopyTree(f, Join(src, n), Join(dst, n))
                    ELSE Copy2(f, Join(src, n), Join(dst, n))
             rest == CopyEntries(one.fs, src, dst, left \ {n})
         IN  [fs |-> rest.fs, exc |-> IF one.exc = "ok" THEN rest.exc ELSE "Error"]

\* The filesystem with the subtree at src relocated to dst.
Relocate(f, src, dst) ==
    LET moved == Under(f, src)
        kept == (DOMAIN f) \ (moved \cup Under(f, dst))
        Rest(q) == SubSeq(q, Len(src) + 1, Len(q))
        Back(q) == src \o SubSeq(q, Len(dst) + 1, Len(q))
    IN  [q \in kept \cup {dst \o Rest(m) : m \in moved} |->
            IF IsPrefix(dst, q) THEN f[Back(q)] ELSE f[q]]

\* os.rename(src, dst) on POSIX.
Rename(f, src, dst) ==
    CASE StatErr(f, src) # "ok" -> Raise(f, StatErr(f, src))
      [] DirErr(f, Parent(dst)) # "ok" -> Raise(f, DirErr(f, Parent(dst)))
      [] src = dst -> Ok(f)
      [] IsDir(f, src) /\ IsPrefix(src, dst) -> Raise(f, "OSError")
      [] Kind(f, src) = "locked" /\ Parent(src) # Parent(dst) -> Raise(f, "PermissionError")
      [] IsDir(f, src) /\ IsFile(f, dst) -> Raise(f, "NotADirectoryError")
      [] IsDir(f, src) /\ IsDir(f, dst) /\ Children(f, dst) # {} -> Raise(f, "OSError")
      [] IsFile(f, src) /\ IsDir(f, dst) -> Raise(f, "IsADirectoryError")
      [] OTHER -> Ok(Relocate(f, src, dst))

\* shutil.move(src, dst): into dst when dst is a directory; os.rename, and
\* when that fails for any reason copy-then-delete.
Move(f, src, dst) ==
    LET real == IF IsDir(f, dst) THEN Join(dst, Base(src)) ELSE dst
        renamed == Rename(f, src, real)
        tree == CopyTree(f, src, real)
        file == Copy2(f, src, real)
    IN  CASE IsDir(f, dst) /\ src = dst -> {Rename(f, src, dst)}
          [] IsDir(f, dst) /\ Has(f, real) -> {Raise(f, "Error")}
          [] renamed.exc = "ok" -> {renamed}
          [] IsDir(f, src) /\ IsPrefix(src, dst) -> {Raise(f, "Error")}
          [] IsDir(f, src) /\ tree.exc # "ok" -> {tree}
          [] IsDir(f, src) -> RmTree(tree.fs, src)
          [] file.exc # "ok" -> {file}
          [] OTHER -> {Remove(file.fs, src)}

\* ------------------------------------------------------------------ state
VARIABLES
    fs,            \* the filesystem
    current_path,  \* FileManagerApp.current_path
    clipboard,     \* FileManagerApp.clipboard: {"action", "path"}
    tree,          \* the rows of the Treeview, in display order
    editors,       \* the files of the open TextEditorWindows
    out            \* what the last handler showed: dialogs, answers, exception

vars == <<fs, current_path, clipboard, tree, editors, out>>

\* os.path.expanduser("~")
Home == <<nD>>
\* The clipboard's None path and the empty clipboard of __init__.
NonePath == << << >> >>
EmptyClipboard == [action |-> "None", path |-> NonePath]

\* The session's state as one value, and a handler's result: the state it
\* leaves, the message boxes it showed, the yes/no questions it asked with
\* their answers, and the exception that escaped it ("ok" when none did).
Session ==
    [fs |-> fs, cur |-> current_path, clip |-> clipboard, tree |-> tree,
     sel |-> << >>, editors |-> editors]
\* The rows the pointer can be on when a handler is invoked: a right click
\* or a double click selects the row under it (show_context_menu's
\* selection_set, the Treeview's own click binding) before the handler reads
\* tree.selection(); << >> is no row selected.
Selections == {<< >>} \cup {<<tree[i].name>> : i \in 1..Len(tree)}
Clicked(sel) == [Session EXCEPT !.sel = sel]
Res(s, dialogs, raised) == [s |-> s, dialogs |-> dialogs, asked |-> << >>, raised |-> raised]
Shown(title, r) == [r EXCEPT !.dialogs = <<title>> \o @]
Asked(title, answer, r) == [r EXCEPT !.asked = <<[q |-> title, a |-> answer]>> \o @]
\* try: ... except Exception as e: messagebox.showerror("Error", ...)
Caught(r) == IF r.raised = "ok" THEN r ELSE [r EXCEPT !.dialogs = @ \o <<"Error">>, !.raised = "ok"]

\* ------------------------------------------------ tree population (162-200)
Code(c) ==
    CASE c = "." -> 46 [] c = "d" -> 100 [] c = "f" -> 102 [] c = "m" -> 109
      [] c = "D" -> 68 [] c = "F" -> 70 [] c = "M" -> 77 [] OTHER -> 0
\* str.lower on one character.
Lower(c) == CASE c = "D" -> "d" [] c = "F" -> "f" [] c = "M" -> "m" [] OTHER -> c
LowerName(name) == [i \in 1..Len(name) |-> Lower(name[i])]
RECURSIVE Before(_, _)
\* a < b as Python orders strings.
Before(a, b) ==
    CASE a = << >> -> b # << >>
      [] b = << >> -> FALSE
      [] Code(Head(a)) # Code(Head(b)) -> Code(Head(a)) < Code(Head(b))
      [] OTHER -> Before(Tail(a), Tail(b))
RECURSIVE Sorted(_)
\* sorted(names, key=str.lower)
Sorted(names) ==
    IF names = {} THEN << >>
    ELSE LET first == CHOOSE x \in names :
                         \A y \in names : ~Before(LowerName(y), LowerName(x))
         IN  <<first>> \o Sorted(names \ {first})

TextExts == {<<".", "m", "d">>}
\* insert_item: the row of one entry (its name, tag and size).
insert_item(f, cur, name) ==
    LET p == Join(cur, name)
        ext == LowerName(SplitExt(name))
    IN  [name |-> name,
         tag |-> IF IsDir(f, p) THEN "folder"
                 ELSE IF ext \in TextExts THEN "textfile" ELSE "file",
         size |-> Len(f[p][2])]
Listing(f, cur) ==
    LET names == ListDir(f, cur).names
        folders == Sorted({n \in names : IsDir(f, Join(cur, n))})
        files == Sorted({n \in names : IsFile(f, Join(cur, n))})
        order == folders \o files
    IN  [i \in 1..Len(order) |-> insert_item(f, cur, order[i])]

RECURSIVE populate_tree(_, _), navigate_to_path(_, _, _)
\* populate_tree, with the directories this chain of calls has already
\* tried: meeting one again means the calls never end, which Python ends
\* with RecursionError.
populate_tree(s, seen) ==
    LET cleared == [s EXCEPT !.tree = << >>, !.sel = << >>]
        ls == ListDir(s.fs, s.cur)
    IN  CASE s.cur \in seen -> Res(cleared, << >>, "RecursionError")
          [] ls.exc = "ok" ->
                Res([cleared EXCEPT !.tree = Listing(s.fs, s.cur)], << >>, "ok")
          [] ls.exc = "PermissionError" ->
                Shown("Permission Denied",
                      navigate_to_path(cleared, Parent(s.cur), seen \cup {s.cur}))
          [] ls.exc = "FileNotFoundError" ->
                Shown("Not Found",
                      populate_tree([cleared EXCEPT !.cur = Home], seen \cup {s.cur}))
          [] OTHER -> Res(cleared, << >>, ls.exc)
\* navigate_to_path(path)
navigate_to_path(s, path, seen) ==
    IF IsDirTyped(s.fs, path)
    THEN populate_tree([s EXCEPT !.cur = AbsPath(path)], seen)
    ELSE Res(s, <<"Invalid Path">>, "ok")
\* go_up
go_up(s) == navigate_to_path(s, Parent(s.cur), {})

\* get_selected_item_path: NonePath when nothing is selected.
get_selected_item_path(s) ==
    IF s.sel = << >> THEN NonePath ELSE Join(s.cur, s.sel[1])

\* The handler's populate_tree call, made inside its try block.
Refreshed(s) == Caught(populate_tree(s, {}))

\* ------------------------------------------------ context menu (288-406)
\* create_folder, with the name typed in the dialog.
create_folder(s, name) ==
    LET made == MkDir(s.fs, Join(s.cur, name))
    IN  CASE name = << >> -> Res(s, << >>, "ok")
          [] made.exc # "ok" -> Res(s, <<"Error">>, "ok")
          [] OTHER -> Refreshed([s EXCEPT !.fs = made.fs])

\* create_file, with the name typed in the dialog.
create_file(s, name) ==
    LET made == OpenAppend(s.fs, Join(s.cur, name))
    IN  CASE name = << >> -> Res(s, << >>, "ok")
          [] SplitExt(name) = << >> -> Res(s, <<"Invalid Name">>, "ok")
          [] made.exc # "ok" -> Res(s, <<"Error">>, "ok")
          [] OTHER -> Refreshed([s EXCEPT !.fs = made.fs])

\* rename_item, with the name typed in the dialog.
rename_item(s, new_name) ==
    LET src_path == get_selected_item_path(s)
        old_name == Base(src_path)
        dest_path == Join(s.cur, new_name)
    IN  IF src_path = NonePath \/ new_name = << >> \/ new_name = old_name
        THEN {Res(s, << >>, "ok")}
        ELSE {IF o.exc = "ok"
              THEN Refreshed([s EXCEPT !.fs = o.fs])
              ELSE Res([s EXCEPT !.fs = o.fs], <<"Error">>, "ok") :
                 o \in Move(s.fs, src_path, dest_path)}

\* A delete_item that goes on whatever the answer.
delete_unasked(s, yes) ==
    LET src_path == get_selected_item_path(s)
        gone == IF IsDir(s.fs, src_path)
                THEN RmTree(s.fs, src_path) ELSE {Remove(s.fs, src_path)}
    IN  IF src_path = NonePath THEN {Res(s, << >>, "ok")}
        ELSE {Asked("Confirm Deletion", yes,
                    IF o.exc = "ok"
                    THEN Refreshed([s EXCEPT !.fs = o.fs])
                    ELSE Res([s EXCEPT !.fs = o.fs], <<"Error">>, "ok")) :
                 o \in gone}

\* delete_item, with the answer given to "Confirm Deletion".
delete_item(s, yes) ==
    LET src_path == get_selected_item_path(s)
        is_dir == IsDir(s.fs, src_path)
        gone == IF is_dir THEN RmTree(s.fs, src_path) ELSE {Remove(s.fs, src_path)}
    IN  CASE src_path = NonePath -> {Res(s, << >>, "ok")}
          [] ~yes -> {Asked("Confirm Deletion", FALSE, Res(s, << >>, "ok"))}
          [] OTHER ->
                {Asked("Confirm Deletion", TRUE,
                       IF o.exc = "ok"
                       THEN Refreshed([s EXCEPT !.fs = o.fs])
                       ELSE Res([s EXCEPT !.fs = o.fs], <<"Error">>, "ok")) :
                    o \in gone}

\* clear_content, with the answer given to "Confirm Clear".
clear_content(s, yes) ==
    LET src_path == get_selected_item_path(s)
        cut == OpenWrite(s.fs, src_path, << >>)
    IN  CASE src_path = NonePath \/ IsDir(s.fs, src_path) -> Res(s, << >>, "ok")
          [] ~yes -> Asked("Confirm Clear", FALSE, Res(s, << >>, "ok"))
          [] cut.exc # "ok" -> Asked("Confirm Clear", TRUE, Res(s, <<"Error">>, "ok"))
          [] OTHER ->
                Asked("Confirm Clear", TRUE, Refreshed([s EXCEPT !.fs = cut.fs]))

\* copy_item
copy_item(s) ==
    LET src_path == get_selected_item_path(s)
    IN  IF src_path = NonePath THEN Res(s, << >>, "ok")
        ELSE Res([s EXCEPT !.clip = [action |-> "copy", path |-> src_path]], << >>, "ok")

\* cut_item
cut_item(s) ==
    LET src_path == get_selected_item_path(s)
    IN  IF src_path = NonePath THEN Res(s, << >>, "ok")
        ELSE Res([s EXCEPT !.clip = [action |-> "cut", path |-> src_path]], << >>, "ok")

\* A paste that empties the clipboard after a copy as well.
PastedForgetting(s, action, f) == [s EXCEPT !.fs = f, !.clip = EmptyClipboard]

\* The session after paste_item has copied or moved the clipboard's entry:
\* a cut empties the clipboard, a copy keeps it.
Pasted(s, action, f) ==
    [s EXCEPT !.fs = f, !.clip = IF action = "cut" THEN EmptyClipboard ELSE @]

RECURSIVE paste_item(_, _)
\* paste_item, with the answers given to the "Confirm Replace" dialogs it
\* shows, in order.  A dialog beyond the answers supplied ends the handler
\* with "Unanswered".
paste_item(s, answers) ==
    LET src_path == s.clip.path
        action == s.clip.action
        dest_path == Join(s.cur, Base(src_path))
        tried == CASE action = "copy" /\ IsDir(s.fs, src_path) ->
                        {CopyTree(s.fs, src_path, dest_path)}
                   [] action = "copy" -> {Copy2(s.fs, src_path, dest_path)}
                   [] OTHER -> Move(s.fs, src_path, dest_path)
        Done(o) == Refreshed(Pasted(s, action, o.fs))
        Replaced(o) ==
            LET gone == IF IsDir(o.fs, dest_path)
                        THEN RmTree(o.fs, dest_path)
                        ELSE {Remove(o.fs, dest_path)}
            IN  UNION {IF g.exc # "ok"
                       THEN {Res([s EXCEPT !.fs = g.fs], << >>, g.exc)}
                       ELSE paste_item([s EXCEPT !.fs = g.fs], Tail(answers)) :
                          g \in gone}
        After(o) ==
            CASE o.exc = "ok" -> {Done(o)}
              [] o.exc # "FileExistsError" -> {Res([s EXCEPT !.fs = o.fs], <<"Error">>, "ok")}
              [] answers = << >> -> {Res([s EXCEPT !.fs = o.fs], << >>, "Unanswered")}
              [] ~Head(answers) ->
                    {Asked("Confirm Replace", FALSE, Res([s EXCEPT !.fs = o.fs], << >>, "ok"))}
              [] OTHER -> {Asked("Confirm Replace", TRUE, r) : r \in Replaced(o)}
    IN  CASE src_path = NonePath -> {Res(s, << >>, "ok")}
          [] src_path = s.cur \/ AbsPath(src_path) = AbsPath(dest_path) ->
                {Res(s, << >>, "ok")}
          [] OTHER -> UNION {After(o) : o \in tried}

\* ------------------------------------------------- editor windows (9-75)
Blank == {" ", "\n"}
RECURSIVE LStrip(_), RStrip(_)
LStrip(t) == IF t # << >> /\ Head(t) \in Blank THEN LStrip(Tail(t)) ELSE t
RStrip(t) == IF t # << >> /\ t[Len(t)] \in Blank THEN RStrip(SubSeq(t, 1, Len(t) - 1)) ELSE t
\* str.strip
Strip(t) == RStrip(LStrip(t))
\* text_area.get(1.0, tk.END): the text typed, with Tk's final newline.
TextAreaGet(text) == text \o <<"\n">>

\* TextEditorWindow.save_content, for the window on file w holding text.
save_content(s, w, text) ==
    LET wrote == OpenWrite(s.fs, w, TextAreaGet(text))
    IN  IF wrote.exc # "ok" THEN Res(s, <<"Error">>, "ok")
        ELSE Refreshed([s EXCEPT !.fs = wrote.fs])
Destroyed(r, w) == [r EXCEPT !.s.editors = @ \ {w}]
\* TextEditorWindow.save_and_close
save_and_close(s, w, text) == Destroyed(save_content(s, w, text), w)
\* TextEditorWindow.on_close, with the answer given to "Unsaved Changes".
on_close(s, w, text, yes) ==
    LET saved == OpenRead(s.fs, w)
        dirty == CASE saved.exc = "ok" -> Strip(TextAreaGet(text)) # Strip(saved.text)
                   [] saved.exc = "FileNotFoundError" -> Strip(TextAreaGet(text)) # << >>
                   [] OTHER -> FALSE
    IN  Destroyed(CASE ~dirty -> Res(s, << >>, "ok")
                    [] ~yes -> Asked("Unsaved Changes", FALSE, Res(s, << >>, "ok"))
                    [] OTHER -> Asked("Unsaved Changes", TRUE, save_content(s, w, text)),
                  w)

\* edit_item(item_path): TextEditorWindow(self, item_path).  When
\* load_content fails it destroys the window, and __init__ goes on to call
\* protocol() on the destroyed window, which Tk refuses with TclError.
edit_item(s, item_path) ==
    CASE item_path = NonePath \/ IsDir(s.fs, item_path) -> Res(s, << >>, "ok")
      [] OpenRead(s.fs, item_path).exc # "ok" -> Res(s, <<"Error">>, "TclError")
      [] OTHER -> Res([s EXCEPT !.editors = @ \cup {item_path}], << >>, "ok")

\* open_item / on_item_double_click: the selected row.
open_item(s) ==
    LET item_path == get_selected_item_path(s)
        row == CHOOSE r \in {s.tree[i] : i \in 1..Len(s.tree)} : r.name = s.sel[1]
    IN  CASE item_path = NonePath -> Res(s, << >>, "ok")
          [] IsDir(s.fs, item_path) -> navigate_to_path(s, item_path, {})
          [] row.tag = "textfile" -> edit_item(s, item_path)
          [] OTHER -> Res(s, << >>, "ok")

\* ---------------------------------------------------------------- actions
Bounded(f) ==
    /\ Cardinality(DOMAIN f) <= MaxEntries + 1
    /\ \A p \in DOMAIN f : Len(p) <= MaxDepth

\* What the last handler did, as the user saw it: the handler, the row that
\* was clicked (for rename, copy and cut), the name typed, the kind of
\* directory navigate_to_path was sent to, the questions asked with their answers, the message boxes shown
\* and the exception that escaped the handler.
Out(op, sel, name, target, r) ==
    [op |-> op, sel |-> sel, name |-> name, target |-> target,
     asked |-> r.asked, dialogs |-> r.dialogs, raised |-> r.raised]

\* The handler's result becomes the next state.
Apply(op, sel, name, target, r) ==
    /\ Bounded(r.s.fs)
    /\ Cardinality(r.s.editors) <= MaxEditors
    /\ fs' = r.s.fs
    /\ current_path' = r.s.cur
    /\ clipboard' = r.s.clip
    /\ tree' = r.s.tree
    /\ editors' = r.s.editors
    /\ out' = Out(op, sel, name, target, r)

\* The filesystems a session may start on: the home directory with a text
\* file in it; the home directory beside a directory without permissions.
FsPlain ==
    (Root :> DirNode) @@ (Home :> DirNode)
        @@ (Join(Home, nFmd) :> FileNode(<<"x", "\n">>))
FsLocked ==
    (Root :> DirNode) @@ (Home :> DirNode) @@ (<<nFmd>> :> LockedNode)
InitialFileSystems == {FsPlain, FsLocked}

\* __init__: current_path is the home directory, the clipboard is empty,
\* and populate_tree has run.
Init ==
    \E f \in InitialFileSystems :
        LET r == populate_tree(
                     [fs |-> f, cur |-> AbsPath(Home), clip |-> EmptyClipboard,
                      tree |-> << >>, sel |-> << >>, editors |-> {}], {})
        IN  /\ fs = r.s.fs
            /\ current_path = r.s.cur
            /\ clipboard = r.s.clip
            /\ tree = r.s.tree
            /\ editors = r.s.editors
            /\ out = Out("__init__", << >>, << >>, "", r)

\* What navigate_to_path is sent to: a directory, a directory that cannot
\* be listed, a file or nothing.
TargetKind(f, path) ==
    CASE ~Resolves(f, path) -> "none"
      [] Kind(f, AbsPath(path)) = "dir" -> "dir"
      [] Kind(f, AbsPath(path)) = "locked" -> "locked"
      [] OTHER -> "file"

NavigateFromAddressBar ==
    \E path \in AddressInputs :
        Apply("navigate_from_address_bar", << >>, << >>, TargetKind(fs, path),
              navigate_to_path(Session, path, {}))
GoUp ==
    Apply("go_up", << >>, << >>, TargetKind(fs, Parent(current_path)), go_up(Session))
OpenItem ==
    \E sel \in Selections :
        Apply("open_item", << >>, << >>,
              IF IsDir(fs, get_selected_item_path(Clicked(sel)))
              THEN TargetKind(fs, get_selected_item_path(Clicked(sel))) ELSE "",
              open_item(Clicked(sel)))
EditItem ==
    \E sel \in Selections :
        Apply("edit_item", << >>, << >>, "",
              edit_item(Clicked(sel), get_selected_item_path(Clicked(sel))))
ClearContent ==
    \E sel \in Selections : \E yes \in BOOLEAN :
        Apply("clear_content", << >>, << >>, "", clear_content(Clicked(sel), yes))
CreateFolder ==
    \E name \in FolderInputs :
        Apply("create_folder", << >>, name, "", create_folder(Session, name))
CreateFile ==
    \E name \in FileInputs :
        Apply("create_file", << >>, name, "", create_file(Session, name))
RenameItem ==
    \E sel \in Selections : \E name \in RenameInputs :
        \E r \in rename_item(Clicked(sel), name) : Apply("rename_item", sel, name, "", r)
DeleteItem ==
    \E sel \in Selections : \E yes \in BOOLEAN :
        \E r \in delete_item(Clicked(sel), yes) : Apply("delete_item", << >>, << >>, "", r)
CopyItem ==
    \E sel \in Selections : Apply("copy_item", sel, << >>, "", copy_item(Clicked(sel)))
CutItem ==
    \E sel \in Selections : Apply("cut_item", sel, << >>, "", cut_item(Clicked(sel)))
\* A directory copied into a directory below itself is copied into its own
\* copy without end (until the path is too long for the platform): beyond
\* every depth the model holds.
Unending(s) ==
    /\ s.clip.action = "copy"
    /\ IsDir(s.fs, s.clip.path)
    /\ IsPrefix(s.clip.path, s.cur)
    /\ s.clip.path # s.cur
PasteItem ==
    /\ ~Unending(Session)
    /\ \E answers \in [1..MaxAsks -> BOOLEAN] : \E r \in paste_item(Session, answers) :
           Apply("paste_item", << >>, << >>, "", r)
SaveContent ==
    \E w \in editors : \E text \in Texts :
        Apply("save_content", << >>, << >>, "", save_content(Session, w, text))
SaveAndClose ==
    \E w \in editors : \E text \in Texts :
        Apply("save_and_close", << >>, << >>, "", save_and_close(Session, w, text))
OnClose ==
    \E w \in editors : \E text \in Texts : \E yes \in BOOLEAN :
        Apply("on_close", << >>, << >>, "", on_close(Session, w, text, yes))
\* Another process deletes the current directory, or a directory above it,
\* with everything below.
ExternalDelete ==
    \E p \in (Prefixes(current_path) \cap DOMAIN fs) \ {Root} :
        Apply("external", << >>, << >>, "",
              Res([Session EXCEPT !.fs = Without(fs, Under(fs, p))], << >>, "ok"))

\* Every handler, and the other process.
Next ==
    \/ NavigateFromAddressBar
    \/ GoUp
    \/ OpenItem
    \/ EditItem
    \/ ClearContent
    \/ CreateFolder
    \/ CreateFile
    \/ RenameItem
    \/ DeleteItem
    \/ CopyItem
    \/ CutItem
    \/ PasteItem
    \/ SaveContent
    \/ SaveAndClose
    \/ OnClose
    \/ ExternalDelete
Spec == Init /\ [][Next]_vars

\* The session of a user who works with the clipboard: no editor window is
\* opened and no other process interferes.
NextClipboard ==
    \/ NavigateFromAddressBar
    \/ GoUp
    \/ OpenItem
    \/ ClearContent
    \/ CreateFolder
    \/ RenameItem
    \/ DeleteItem
    \/ CopyItem
    \/ CutItem
    \/ PasteItem
SpecClipboard == Init /\ [][NextClipboard]_vars

\* The same session without renaming and clearing.
NextCutPaste ==
    \/ NavigateFromAddressBar
    \/ GoUp
    \/ OpenItem
    \/ CreateFolder
    \/ DeleteItem
    \/ CopyItem
    \/ CutItem
    \/ PasteItem
SpecCutPaste == Init /\ [][NextCutPaste]_vars

\* The session of a user who creates, renames and deletes entries.
NextFiles ==
    \/ NavigateFromAddressBar
    \/ GoUp
    \/ OpenItem
    \/ ClearContent
    \/ CreateFolder
    \/ CreateFile
    \/ RenameItem
    \/ DeleteItem
SpecFiles == Init /\ [][NextFiles]_vars

\* The session of a user who moves about and edits files while another
\* process deletes directories.
NextEditor ==
    \/ NavigateFromAddressBar
    \/ GoUp
    \/ OpenItem
    \/ EditItem
    \/ CreateFolder
    \/ CreateFile
    \/ SaveContent
    \/ SaveAndClose
    \/ OnClose
    \/ ExternalDelete
SpecEditor == Init /\ [][NextEditor]_vars

\* ----------------------------------------------------------- well-formed
TypeOK ==
    /\ Root \in DOMAIN fs /\ fs[Root] = DirNode
    /\ \A p \in DOMAIN fs : Kind(fs, Parent(p)) = "dir"
    /\ out.raised # "Unanswered"

\* ----------------------------------------------------------------- claims
\* The entries at and below p, by their paths from p, with their contents.
Contents(f, p) == {<<SubSeq(q, Len(p) + 1, Len(q)), f[q]>> : q \in Under(f, p)}
\* The step showed a message box with this title.
Saw(title) == \E i \in 1..Len(out'.dialogs) : out'.dialogs[i] = title
\* The step asked this question and got this answer.
Answered(title, answer) ==
    \E i \in 1..Len(out'.asked) : out'.asked[i] = [q |-> title, a |-> answer]
\* The step returned to the event loop.
Returned == out'.raised = "ok"

DeleteAsksFirst ==
    out'.op = "delete_item" =>
        /\ fs' # fs => Answered("Confirm Deletion", TRUE)
        /\ Answered("Confirm Deletion", FALSE) =>
              /\ fs' = fs
              /\ current_path' = current_path
              /\ clipboard' = clipboard
              /\ out'.dialogs = << >>
              /\ Returned
\* C1: delete_item removes an entry only after "Confirm Deletion" was
\* answered yes; when the user declines, whatever was selected, the
\* filesystem, current_path and the clipboard are as before the call and no
\* error is reported.
C1_DeclinedDeleteChangesNothing == [][DeleteAsksFirst]_vars
\* The user declined to delete a row of a directory whose rows all exist,
\* with the clipboard set.
C1_Declined ==
    /\ out.op = "delete_item"
    /\ out.asked = <<[q |-> "Confirm Deletion", a |-> FALSE]>>
    /\ tree = Listing(fs, current_path)
    /\ clipboard # EmptyClipboard

PasteAsksFirst ==
    (out'.op = "paste_item" /\ clipboard.path # NonePath) =>
        LET dest_path == Join(current_path, Base(clipboard.path))
        IN  (/\ Has(fs, dest_path)
             /\ (~Has(fs', dest_path) \/ fs'[dest_path] # fs[dest_path]))
                => Answered("Confirm Replace", TRUE)
\* C2: whatever the clipboard holds and whatever the current directory,
\* paste_item replaces, overwrites or removes an entry that exists at the
\* destination path (current_path joined with the source's base name) only
\* when "Confirm Replace" was answered yes during that paste.
C2_PasteReplacesOnlyWhenConfirmed == [][PasteAsksFirst]_vars

CopyKeepsSource ==
    (out'.op = "paste_item" /\ clipboard.action = "copy" /\ Has(fs, clipboard.path)) =>
        LET src_path == clipboard.path
            dest_path == Join(current_path, Base(src_path))
        IN  /\ Returned => Contents(fs', src_path) = Contents(fs, src_path)
            /\ (Returned /\ out'.dialogs = << >> /\ fs' # fs) =>
                   Contents(fs', dest_path) = Contents(fs, src_path)
\* C3: after a paste with clipboard action "copy" returns, whatever the
\* dialog answers (a confirmed replacement included), the source path still
\* exists with the contents it had, and on success the destination holds a
\* copy with identical contents.
C3_CopyPasteKeepsSource == [][CopyKeepsSource]_vars

RenameMoves ==
    (/\ out'.op = "rename_item"
     /\ out'.sel # << >>
     /\ out'.name # << >>
     /\ out'.name # out'.sel[1]
     /\ Returned
     /\ ~Saw("Error")) =>
        LET old_path == Join(current_path, out'.sel[1])
            new_path == Join(current_path, out'.name)
        IN  /\ ~Has(fs', old_path)
            /\ Has(fs', new_path)
            /\ Contents(fs', new_path) = Contents(fs, old_path)
\* C4: whenever rename_item completes without an error dialog for a selected
\* entry old_name and a different new_name, the current directory has no
\* entry old_name and has an entry new_name holding what old_name held,
\* also when an entry new_name (file or directory) existed before.
C4_RenameMovesTheEntry == [][RenameMoves]_vars

FailedNavigationStays ==
    (/\ out'.op \in {"navigate_from_address_bar", "open_item", "go_up"}
     /\ out'.target \in {"none", "file", "locked"}) =>
        /\ out'.dialogs # << >>
        /\ current_path' = current_path
\* C5: for every path given to navigate_to_path (address bar, double click,
\* go_up) that is missing, is not a directory or is a directory that cannot
\* be listed, an error is reported and current_path is what it was before.
C5_FailedNavigationLeavesCurrentPath == [][FailedNavigationStays]_vars

DanglingFallsBackHome ==
    /\ Saw("Not Found") =>
          /\ Returned
          /\ current_path' = Home
          /\ IsDir(fs', current_path')
          /\ tree' = Listing(fs', Home)
    /\ (/\ out'.op \in {"navigate_from_address_bar", "open_item", "go_up"}
        /\ out'.target \in {"dir", "locked"}
        /\ Returned) => IsDir(fs', current_path')
\* C6: when current_path no longer exists, the next populate_tree call
\* detects it ("Not Found"), ends with current_path the home directory and
\* shows the home directory's listing; after a populate_tree call returns,
\* current_path is an existing directory.
C6_DanglingPathFallsBackToHome == [][DanglingFallsBackHome]_vars

\* A dot followed by at least one character.
HasExtension(name) == \E i \in 1..(Len(name) - 1) : name[i] = "."
ExtensionPolicy ==
    /\ (out'.op = "create_file" /\ out'.name # << >> /\ ~HasExtension(out'.name)) =>
          /\ Saw("Invalid Name")
          /\ fs' = fs
    /\ out'.op \in {"create_file", "rename_item"} =>
          \A p \in DOMAIN fs' :
              (IsFile(fs', p) /\ ~Has(fs, p)) => HasExtension(Base(p))
\* C7: a name entered in create_file that lacks an extension (a dot followed
\* by at least one character) is rejected with a message and nothing is
\* created or touched; no operation that takes a file name from the user
\* produces a file whose name lacks an extension.
C7_FilesGetAnExtension == [][ExtensionPolicy]_vars

\* C8: no exception escapes populate_tree (as the navigation handlers call
\* it), create_folder, create_file, rename_item, delete_item, clear_content
\* or paste_item, its replace-and-retry path included.
C8_NoExceptionEscapes ==
    out.op \in {"__init__", "navigate_from_address_bar", "open_item", "go_up",
                "create_folder", "create_file", "rename_item", "delete_item",
                "clear_content", "paste_item"} => out.raised = "ok"

TreeShowsDirectory ==
    (/\ out'.op \in {"create_folder", "create_file", "rename_item", "delete_item",
                     "clear_content", "paste_item",
                     "save_content", "save_and_close", "on_close"}
     /\ fs' # fs
     /\ Returned) =>
        {tree'[i].name : i \in 1..Len(tree')} = ListDir(fs', current_path').names
\* C9: whenever create_folder, create_file, rename_item, delete_item,
\* clear_content, paste_item or an editor save has changed the filesystem
\* and returned, the rows of the tree are the entries of current_path.
C9_TreeRelistedAfterChange == [][TreeShowsDirectory]_vars

\* The paste moved the entry that had been cut.
CutPasted ==
    /\ clipboard.action = "cut"
    /\ Has(fs, clipboard.path)
    /\ ~Has(fs', clipboard.path)
    /\ Returned
    /\ ~Saw("Error")
ClipboardHoldsLast ==
    CASE out'.op \in {"copy_item", "cut_item"} /\ out'.sel # << >> ->
            clipboard' = [action |-> IF out'.op = "copy_item" THEN "copy" ELSE "cut",
                          path |-> Join(current_path, out'.sel[1])]
      [] out'.op = "paste_item" ->
            clipboard' = IF CutPasted THEN EmptyClipboard ELSE clipboard
      [] OTHER -> clipboard' = clipboard
\* C10: the clipboard is empty or holds the path and action of the most
\* recent copy_item / cut_item made with a selection; a paste that moved
\* the entry that was cut empties it; a copy-paste and a paste that failed
\* or was refused leave it as it was.
C10_OneSlotClipboard == [][ClipboardHoldsLast]_vars
\* The file of the home directory was cut and pasted into the root.
C10_CutPasted ==
    /\ out.op = "paste_item"
    /\ out.dialogs = << >>
    /\ clipboard = EmptyClipboard
    /\ current_path = Root
    /\ IsFile(fs, <<nFmd>>)
    /\ ~Has(fs, Join(Home, nFmd))
    /\ \E i \in 1..Len(tree) : tree[i].name = nFmd

====
